---- MODULE Spec2Model ----
(***************************************************************************)
(* Model of gossip/node.py: the RoundTripEstimator, the TransmissionQueue  *)
(* (a lazily invalidated binary heap beside an authoritative dictionary)   *)
(* and the Node that owns one of each together with a token bucket.        *)
(*                                                                         *)
(* Numbers.  Estimator values are exact rationals, written as integers in  *)
(* units of 1/Unit second; an update whose result is not a whole number of *)
(* units is outside the model (see Representable).  Queue times are        *)
(* integers in units of 0.1 second.                                        *)
(***************************************************************************)
EXTENDS Integers, Sequences, FiniteSets, TLC

(***************************************************************************)
(* Bounds of the model: the resolution of the estimator's values (the      *)
(* number of smoothing updates that stay exact), the number of message     *)
(* identifiers, the latest time-to-send given to the queue directly, the   *)
(* latest clock value given to the node, the capacity of the token bucket, *)
(* the longest delay drawn by _randomdelay and the longest run of           *)
(* consecutive backoff() calls on an estimator used on its own.            *)
(***************************************************************************)
MaxSmooth == 2
NumIds == 2
MaxTime == 2
MaxNow == 2
MaxTokens == 2
MaxDelay == 1
MaxBackoffs == 7

(***************************************************************************)
(* RoundTripEstimator: class constants (node.py 265-272).                  *)
(***************************************************************************)
Unit == 40 * (8 ^ MaxSmooth)

MinimumRTO == 1 * Unit
MaximumRTO == 60 * Unit
BackoffRate == 2
MinResolution == Unit \div 40
AlphaNum == 1
AlphaDen == 8
BetaNum == 1
BetaDen == 4
K == 4

Min(a, b) == IF a <= b THEN a ELSE b
Max(a, b) == IF a >= b THEN a ELSE b
Abs(a) == IF a < 0 THEN 0 - a ELSE a

VARIABLES RTO, SRTT, RTTVAR,
          messages, times, heap,
          tokens,
          UseFixedDelay, FixedRandomDelay,
          clock, calls,
          last

estimator == <<RTO, SRTT, RTTVAR>>
queue == <<messages, times, heap>>
config == <<UseFixedDelay, FixedRandomDelay>>
actor == <<clock, calls>>
vars == <<RTO, SRTT, RTTVAR, messages, times, heap, tokens,
          UseFixedDelay, FixedRandomDelay, clock, calls, last>>

(***************************************************************************)
(* Messages.  A message exposes Identifier, IsSystemMessage and a length   *)
(* (len(msg)).  Two message objects may carry the same Identifier; here    *)
(* the length of a message is its Identifier, so that messages of          *)
(* different identifiers have different lengths.                           *)
(***************************************************************************)
Ids == 1 .. NumIds
Msg(i, sys) == [Identifier |-> i, IsSystemMessage |-> sys, len |-> i]
Msgs == {Msg(i, sys) : i \in Ids, sys \in BOOLEAN}

(***************************************************************************)
(* The record of the most recent call on the estimator, the queue or the  *)
(* node: what was called, what it returned, whether it raised, and the     *)
(* sizes passed to consume().  The arguments are recorded where a later    *)
(* call is compared with them: the message (<<msg>>) and the time of a     *)
(* TransmissionQueue call, the measurement of an estimator update and the  *)
(* clock value (<<now>>) of get_next_message.  A TransmissionQueue dequeue *)
(* and a message_dropped record whether the identifier was live.  A call   *)
(* on an estimator used on its own also records what it followed: an       *)
(* update the call before it and the RTO it found, a backoff the length of *)
(* the run of consecutive backoffs it belongs to and the RTO that run      *)
(* began with.  None is Python's None.                                     *)
(***************************************************************************)
None == <<>>
Call(op, msg, arg, ret, raised, consumed) ==
    [op |-> op, msg |-> msg, arg |-> arg, ret |-> ret, raised |-> raised,
     consumed |-> consumed]

(***************************************************************************)
(* RoundTripEstimator.update                                               *)
(***************************************************************************)
\* (Faulty variant: the estimator never reseeds.)
SeedingNever(rttvar) == FALSE
Seeding(rttvar) == rttvar = 0

\* (Faulty variant: the variance is smoothed against the updated SRTT.)
update_RTTVAR_late(srtt, rttvar, measuredrto) ==
    IF rttvar = 0
    THEN measuredrto \div 2
    ELSE ((BetaDen - BetaNum) * rttvar
             + BetaNum * Abs(((AlphaDen - AlphaNum) * srtt
                                 + AlphaNum * measuredrto) \div AlphaDen
                             - measuredrto))
             \div BetaDen

update_RTTVAR(srtt, rttvar, measuredrto) ==
    IF Seeding(rttvar)
    THEN measuredrto \div 2
    ELSE ((BetaDen - BetaNum) * rttvar + BetaNum * Abs(srtt - measuredrto))
             \div BetaDen

update_SRTT(srtt, rttvar, measuredrto) ==
    IF Seeding(rttvar)
    THEN measuredrto
    ELSE ((AlphaDen - AlphaNum) * srtt + AlphaNum * measuredrto) \div AlphaDen

\* The divisions above are exact for this input.
Representable(srtt, rttvar, measuredrto) ==
    IF Seeding(rttvar)
    THEN measuredrto % 2 = 0
    ELSE /\ ((BetaDen - BetaNum) * rttvar
                + BetaNum * Abs(srtt - measuredrto)) % BetaDen = 0
         /\ ((AlphaDen - AlphaNum) * srtt + AlphaNum * measuredrto)
                % AlphaDen = 0

\* (Faulty variant: the ceiling is forgotten.)
ClampNoCeiling(rto) == Max(MinimumRTO, rto)
Clamp(rto) == Max(MinimumRTO, Min(MaximumRTO, rto))

update_RTO(srtt2, rttvar2) == Clamp(srtt2 + Max(MinResolution, K * rttvar2))

EstimatorUpdate(measuredrto) ==
    /\ Representable(SRTT, RTTVAR, measuredrto)
    /\ LET rttvar2 == update_RTTVAR(SRTT, RTTVAR, measuredrto)
           srtt2 == update_SRTT(SRTT, RTTVAR, measuredrto)
       IN /\ RTTVAR' = rttvar2
          /\ SRTT' = srtt2
          /\ RTO' = update_RTO(srtt2, rttvar2)

(***************************************************************************)
(* RoundTripEstimator.backoff                                              *)
(***************************************************************************)
\* (Faulty variant: the backed-off value is not capped.)
backoff_RTO_unbounded(rto) == rto * BackoffRate
\* (Faulty variant: the default RTO is doubled, not the previous RTO.)
backoff_RTO_default(rto) == Min(MinimumRTO * BackoffRate, MaximumRTO)
backoff_RTO(rto) == Min(rto * BackoffRate, MaximumRTO)

EstimatorBackoff ==
    /\ SRTT' = 0
    /\ RTTVAR' = 0
    /\ RTO' = backoff_RTO(RTO)

(***************************************************************************)
(* heapq (the standard library's binary heap over a list), on 0-based      *)
(* positions; heap entries are pairs <<timetosend, messageid>>, compared   *)
(* as Python compares tuples.                                              *)
(***************************************************************************)
Lt(a, b) == a[1] < b[1] \/ (a[1] = b[1] /\ a[2] < b[2])

At(h, pos) == h[pos + 1]
Put(h, pos, item) == [h EXCEPT ![pos + 1] = item]

RECURSIVE siftdownLoop(_, _, _, _)
siftdownLoop(h, newitem, startpos, pos) ==
    IF pos > startpos
    THEN LET parentpos == (pos - 1) \div 2
             parent == At(h, parentpos)
         IN IF Lt(newitem, parent)
            THEN siftdownLoop(Put(h, pos, parent), newitem, startpos, parentpos)
            ELSE Put(h, pos, newitem)
    ELSE Put(h, pos, newitem)

siftdown(h, startpos, pos) == siftdownLoop(h, At(h, pos), startpos, pos)

RECURSIVE siftupLoop(_, _, _, _)
siftupLoop(h, newitem, startpos, pos) ==
    LET endpos == Len(h)
        leftpos == 2 * pos + 1
        rightpos == leftpos + 1
        childpos == IF rightpos < endpos
                       /\ ~Lt(At(h, leftpos), At(h, rightpos))
                    THEN rightpos
                    ELSE leftpos
    IN IF leftpos < endpos
       THEN siftupLoop(Put(h, pos, At(h, childpos)), newitem, startpos, childpos)
       ELSE siftdown(Put(h, pos, newitem), startpos, pos)

siftup(h, pos) == siftupLoop(h, At(h, pos), pos, pos)

\* (Faulty variant: the new item is appended and not sifted.)
heappush_nosift(h, item) == Append(h, item)
heappush(h, item) == siftdown(Append(h, item), 0, Len(h))

heappop(h) ==
    LET lastelt == h[Len(h)]
        rest == SubSeq(h, 1, Len(h) - 1)
    IN IF Len(rest) > 0 THEN siftup(Put(rest, 0, lastelt), 0) ELSE rest

RECURSIVE heapifyFrom(_, _)
heapifyFrom(h, i) == IF i < 0 THEN h ELSE heapifyFrom(siftup(h, i), i - 1)

heapify(h) == heapifyFrom(h, (Len(h) \div 2) - 1)

(***************************************************************************)
(* TransmissionQueue.  messages and times are the dictionaries _messages   *)
(* and _times (functions on the set of live identifiers), heap is the list *)
(* _heap.                                                                  *)
(***************************************************************************)
\* (Faulty variant: nothing is removed.)
RemoveNothing(f, k) == f
\* (Faulty variant: the dictionary is emptied.)
RemoveAll(f, k) == <<>>
Remove(f, k) == [i \in DOMAIN f \ {k} |-> f[i]]
Store(f, k, v) == [i \in DOMAIN f \cup {k} |-> IF i = k THEN v ELSE f[i]]

Count == Cardinality(DOMAIN times)

\* The two assertions at the top of enqueue_message.
\* (Faulty variant: no assertion.)
enqueue_asserts_nothing(ms, tm, messageid) == TRUE
enqueue_asserts(ms, tm, messageid) ==
    messageid \notin DOMAIN ms /\ messageid \notin DOMAIN tm

\* _trimheap: pop while the front entry is not the current entry of a live
\* identifier.
\* (Faulty variant: the recorded time is not compared.)
CurrentIdOnly(tm, entry) == entry[2] \in DOMAIN tm
Current(tm, entry) == entry[2] \in DOMAIN tm /\ tm[entry[2]] = entry[1]

RECURSIVE trimheap(_, _)
trimheap(h, tm) ==
    IF Len(h) = 0 THEN h
    ELSE IF Current(tm, h[1]) THEN h
    ELSE trimheap(heappop(h), tm)

\* _buildheap: the rebuild condition, and the heaps a rebuild can produce
\* (iteritems() enumerates the dictionary in an order the program does not
\* control).
Orders(S) ==
    {o \in [1 .. Cardinality(S) -> S] :
        \A i, j \in 1 .. Cardinality(S) : i # j => o[i] # o[j]}

\* (Faulty variant: the heap is never rebuilt.)
NeedsRebuildNever(tm, h) == FALSE
NeedsRebuild(tm, h) == 2 * Cardinality(DOMAIN tm) < Len(h)

\* (Faulty variant: a rebuild empties the heap and does not refill it.)
buildheap_empty(tm, h) == IF NeedsRebuild(tm, h) THEN {<<>>} ELSE {h}
buildheap(tm, h) ==
    IF NeedsRebuild(tm, h)
    THEN {heapify([i \in 1 .. Cardinality(DOMAIN tm) |-> <<tm[o[i]], o[i]>>]) :
             o \in Orders(DOMAIN tm)}
    ELSE {h}

\* The assertion inside the rebuild loop.
buildheap_asserts(ms, tm, h) ==
    NeedsRebuild(tm, h) => DOMAIN tm \subseteq DOMAIN ms

\* TransmissionQueue.enqueue_message(msg, timetosend)
QEnqueue(msg, timetosend) ==
    LET messageid == msg.Identifier
    IN IF enqueue_asserts(messages, times, messageid)
       THEN /\ messages' = Store(messages, messageid, msg)
            /\ times' = Store(times, messageid, timetosend)
            /\ heap' = heappush(heap, <<timetosend, messageid>>)
       ELSE UNCHANGED queue

\* TransmissionQueue.dequeue_message(msg)
QDequeue(msg) ==
    /\ messages' = Remove(messages, msg.Identifier)
    /\ times' = Remove(times, msg.Identifier)
    /\ heap' \in buildheap(times', heap)

\* TransmissionQueue.Head: the heap it leaves and the value it returns.
\* (Faulty variant: Head does not trim the heap.)
Head_heap_untrimmed(h, tm) == h
Head_heap(h, tm) == trimheap(h, tm)
Head_asserts(ms, tm, h2) ==
    Len(h2) > 0 => (h2[1][2] \in DOMAIN ms /\ h2[1][2] \in DOMAIN tm)
Head_value(ms, tm, h2) ==
    IF Len(h2) = 0 \/ ~Head_asserts(ms, tm, h2)
    THEN None
    ELSE <<h2[1][1], ms[h2[1][2]]>>

(***************************************************************************)
(* The queue used on its own.                                              *)
(***************************************************************************)
Times == 0 .. MaxTime

\* The queue reads nothing of a message but its Identifier.
QueueMsgs == {Msg(i, FALSE) : i \in Ids}

Enqueue(msg, timetosend) ==
    /\ QEnqueue(msg, timetosend)
    /\ last' = Call("enqueue", <<msg>>, <<timetosend>>, None,
                    ~enqueue_asserts(messages, times, msg.Identifier), <<>>)
    /\ UNCHANGED <<estimator, tokens, config, actor>>

Dequeue(msg) ==
    /\ QDequeue(msg)
    /\ last' = Call("dequeue", <<msg>>, <<msg.Identifier \in DOMAIN times>>, None,
                    ~buildheap_asserts(messages', times', heap), <<>>)
    /\ UNCHANGED <<estimator, tokens, config, actor>>

Peek ==
    /\ heap' = Head_heap(heap, times)
    /\ last' = Call("Head", None, None, Head_value(messages, times, heap'),
                    ~Head_asserts(messages, times, heap'), <<>>)
    /\ UNCHANGED <<messages, times, estimator, tokens, config, actor>>

(***************************************************************************)
(* The estimator used on its own.                                          *)
(***************************************************************************)
\* Measurements given to update(): 0.5 s, 2 s and 100 s, all above zero,
\* and the same with a measurement of 0.
Measured == {Unit \div 2, 2 * Unit, 100 * Unit}
Measurements == Measured \cup {0}

Update(measuredrto) ==
    /\ EstimatorUpdate(measuredrto)
    /\ last' = Call("update", None, <<measuredrto, last.op, RTO>>, None, FALSE,
                    <<>>)
    /\ UNCHANGED <<queue, tokens, config, actor>>

Backoff ==
    LET n == IF last.op = "backoff" THEN last.arg[1] ELSE 0
        rto0 == IF last.op = "backoff" THEN last.arg[2] ELSE RTO
    IN /\ n < MaxBackoffs
       /\ EstimatorBackoff
       /\ last' = Call("backoff", None, <<n + 1, rto0>>, None, FALSE, <<>>)
       /\ UNCHANGED <<queue, tokens, config, actor>>

(***************************************************************************)
(* The token bucket: consume(size) grants when the bucket holds at least   *)
(* size tokens and then removes them; a denial changes nothing.  The       *)
(* bucket is shared, so its content also changes between the calls of this *)
(* node (refill, other peers).                                             *)
(***************************************************************************)
consume_grants(tk, size) == size <= tk
consume_tokens(tk, size) == IF consume_grants(tk, size) THEN tk - size ELSE tk

Limiter ==
    /\ tokens' \in (0 .. MaxTokens) \ {tokens}
    /\ UNCHANGED <<estimator, queue, config, actor, last>>

(***************************************************************************)
(* Node.  Times are in units of 0.1 second: DelayRange = [0.1, 0.4] is     *)
(* DelayLo .. DelayHi.                                                     *)
(***************************************************************************)
DelayLo == 1
DelayHi == 4
RandomDelays == 0 .. MaxDelay
\* The clock values callers pass, the values time.time() returns, and the
\* round-trip time a delivery reports (0.05 s).
Nows == 0 .. MaxNow
WallTimes == 1 .. MaxNow
NodeRtts == {Unit \div 20}

\* Node.Delay(): _fixeddelay or _randomdelay, as chosen by the constructor.
Delay == IF UseFixedDelay THEN {FixedRandomDelay} ELSE RandomDelays

\* Node.enqueue_message: the time the message is queued at.
\* (Faulty variant: system messages are delayed too.)
timetosend_delayed(msg, now, delay) == now + delay
timetosend_of(msg, now, delay) == IF msg.IsSystemMessage THEN 0 ELSE now + delay

NodeEnqueue(msg, now) ==
    /\ \E delay \in Delay : QEnqueue(msg, timetosend_of(msg, now, delay))
    /\ last' = Call("enqueue_message", None, None, None,
                    ~enqueue_asserts(messages, times, msg.Identifier), <<>>)
    /\ UNCHANGED <<estimator, tokens, config, actor>>

\* Node.get_next_message, on the entry info that Head returned: the time
\* gate, whether the token bucket is asked, and whether the message is sent,
\* in the order the code evaluates them.
\* (Faulty variant: a time-to-send equal to now passes.)
TimeGateInclusive(timetosend, now) == timetosend <= now
TimeGate(timetosend, now) == timetosend < now

get_next_due(info, now) == info # None /\ TimeGate(info[1], now)

\* (Faulty variant: the bucket is asked before the time gate.)
get_next_asks_first(info, now) == info # None /\ ~info[2].IsSystemMessage
get_next_asks(info, now) ==
    get_next_due(info, now) /\ ~info[2].IsSystemMessage

\* (Faulty variant: system messages need a grant too.)
get_next_sends_if_granted(info, now, tk) ==
    get_next_due(info, now) /\ consume_grants(tk, info[2].len)
\* (Faulty variant: a denial is ignored.)
get_next_sends_when_due(info, now, tk) == get_next_due(info, now)
get_next_sends(info, now, tk) ==
    /\ get_next_due(info, now)
    /\ info[2].IsSystemMessage \/ consume_grants(tk, info[2].len)

GetNextCall(now) ==
    LET h2 == IF Count > 0 THEN Head_heap(heap, times) ELSE heap
        info == IF Count > 0 THEN Head_value(messages, times, h2) ELSE None
        asked == get_next_asks(info, now)
        send == get_next_sends(info, now, tokens)
    IN /\ tokens' = IF asked THEN consume_tokens(tokens, info[2].len) ELSE tokens
       /\ IF send
          THEN /\ messages' = Remove(messages, info[2].Identifier)
               /\ times' = Remove(times, info[2].Identifier)
               /\ heap' \in buildheap(times', h2)
          ELSE /\ UNCHANGED <<messages, times>>
               /\ heap' = h2
       /\ last' = Call("get_next_message", None, <<now>>,
                       IF send THEN <<info[2]>> ELSE None,
                       Count > 0 /\ ~Head_asserts(messages, times, h2),
                       IF asked THEN <<info[2].len>> ELSE <<>>)
       /\ UNCHANGED <<estimator, config>>

GetNextMessage(now) == GetNextCall(now) /\ UNCHANGED actor

\* Node.dequeue_message
NodeDequeue(msg) ==
    /\ QDequeue(msg)
    /\ last' = Call("dequeue_message", None, None, None,
                    ~buildheap_asserts(messages', times', heap), <<>>)
    /\ UNCHANGED <<estimator, tokens, config, actor>>

MessageDelivered(msg, rtt) ==
    /\ EstimatorUpdate(rtt)
    /\ QDequeue(msg)
    /\ last' = Call("message_delivered", None, None, None,
                    ~buildheap_asserts(messages', times', heap), <<>>)
    /\ UNCHANGED <<tokens, config, actor>>

\* Node.message_dropped: now is a number or None.
dropped_now(now, wall) == IF now = None \/ now = <<0>> THEN wall ELSE now[1]

MessageDropped(msg, now) ==
    /\ last' = Call("message_dropped", None,
                    <<msg.Identifier \in DOMAIN times>>, None,
                    ~enqueue_asserts(messages, times, msg.Identifier), <<>>)
    /\ EstimatorBackoff
    /\ \E wall \in WallTimes, delay \in Delay :
          QEnqueue(msg, timetosend_of(msg, dropped_now(now, wall), delay))
    /\ UNCHANGED <<tokens, config, actor>>

(***************************************************************************)
(* Construction, and the three ways the classes are used.                  *)
(***************************************************************************)
InitObjects ==
    /\ RTO = MinimumRTO
    /\ SRTT = 0
    /\ RTTVAR = 0
    /\ messages = <<>>
    /\ times = <<>>
    /\ heap = <<>>
    /\ clock = 0
    /\ calls = 0
    /\ last = Call("init", None, None, None, FALSE, <<>>)

\* A RoundTripEstimator or a TransmissionQueue on its own: no node, no bucket.
InitAlone ==
    /\ InitObjects
    /\ tokens = 0
    /\ UseFixedDelay = TRUE
    /\ FixedRandomDelay = DelayLo

\* Node.__init__: FixedRandomDelay is drawn uniformly from DelayRange (here
\* one of its two ends) in every case, and read only under the fixed-delay
\* policy.  The token bucket is shared and holds any number of tokens.
Init ==
    /\ InitObjects
    /\ tokens \in 0 .. MaxTokens
    /\ UseFixedDelay \in BOOLEAN
    /\ FixedRandomDelay \in IF UseFixedDelay THEN {DelayLo, DelayHi} ELSE {DelayLo}

NextEstimator ==
    \/ \E x \in Measured : Update(x)
    \/ Backoff

SpecEstimator == InitAlone /\ [][NextEstimator]_vars

\* The estimator given any measurement that is not negative.
NextEstimatorAny ==
    \/ \E x \in Measurements : Update(x)
    \/ Backoff

SpecEstimatorAny == InitAlone /\ [][NextEstimatorAny]_vars

NextQueue ==
    \/ \E m \in QueueMsgs, t \in Times : Enqueue(m, t)
    \/ \E m \in QueueMsgs : Dequeue(m)
    \/ Peek

SpecQueue == InitAlone /\ [][NextQueue]_vars

Next ==
    \/ \E m \in Msgs, now \in Nows : NodeEnqueue(m, now)
    \/ \E m \in Msgs : NodeDequeue(m)
    \/ Peek
    \/ \E now \in Nows : GetNextMessage(now)
    \/ \E m \in Msgs, rtt \in NodeRtts : MessageDelivered(m, rtt)
    \/ \E m \in Msgs, now \in {None} \cup {<<n>> : n \in Nows} : MessageDropped(m, now)
    \/ Limiter

Spec == Init /\ [][Next]_vars

(***************************************************************************)
(* The node driven by one scheduling actor, whose clock only advances and  *)
(* is the now of every call; calls tells one get_next_message call from    *)
(* the next.  The clock stops at LastClock, which stands for every later   *)
(* time: an ordinary message is enqueued only while the clock is at most   *)
(* MaxNow, so that its time-to-send lies below LastClock.  The clock keeps *)
(* advancing, the actor keeps calling get_next_message, and a bucket that  *)
(* is asked again and again grants again and again.  The caller removes a  *)
(* message with dequeue_message; the estimator, which no call of the actor *)
(* reads, stays as constructed.                                            *)
(***************************************************************************)
LastClock == MaxNow + Max(DelayLo, MaxDelay) + 1

Tick ==
    /\ clock < LastClock
    /\ clock' = clock + 1
    /\ UNCHANGED <<estimator, queue, tokens, config, calls, last>>

ActorEnqueue(msg) ==
    /\ msg.IsSystemMessage \/ clock <= MaxNow
    /\ NodeEnqueue(msg, clock)

ActorGetNext ==
    /\ GetNextCall(clock)
    /\ calls' = 1 - calls
    /\ UNCHANGED clock

\* A get_next_message call of the actor, one that asked the bucket, and one
\* the bucket granted.
CallStep == calls' # calls
AskStep == CallStep /\ last'.consumed # <<>>
GrantStep == AskStep /\ last'.ret # None

InitLive ==
    /\ InitObjects
    /\ tokens \in 0 .. MaxTokens
    /\ UseFixedDelay \in BOOLEAN
    /\ FixedRandomDelay = DelayLo

NextLive ==
    \/ \E m \in Msgs : ActorEnqueue(m)
    \/ \E m \in Msgs : NodeDequeue(m)
    \/ ActorGetNext
    \/ Tick
    \/ Limiter

SpecLive ==
    /\ InitLive
    /\ [][NextLive]_vars
    /\ WF_vars(Tick)
    /\ []<><<CallStep>>_vars
    /\ []<><<AskStep>>_vars => []<><<GrantStep>>_vars

(***************************************************************************)
(* Properties.                                                             *)
(***************************************************************************)

\* The least time-to-send among the live entries (the queue is not empty).
MinLiveTime == CHOOSE t \in {times[i] : i \in DOMAIN times} :
                   \A j \in DOMAIN times : t <= times[j]

\* The heap holds an entry that _trimheap would discard.
HasStaleEntry == \E k \in 1 .. Len(heap) : ~Current(times, heap[k])

\* C1: after construction and after every update(x) with x > 0 and every
\* backoff(), RTO lies in [MinimumRTO, MaximumRTO].
C1_RTOWithinBounds == MinimumRTO <= RTO /\ RTO <= MaximumRTO

\* C1 witness: an update whose unclamped value exceeds the ceiling has run.
C1_Witness ==
    /\ last.op = "update"
    /\ SRTT + Max(MinResolution, K * RTTVAR) > MaximumRTO
    /\ RTO = MaximumRTO

\* C2: enqueue_message(m, t) for an identifier that is live raises, and the
\* failed call leaves the dictionaries and the heap exactly as they were.
C2_DuplicateEnqueueFails ==
    [][(last'.op = "enqueue" /\ last'.msg[1].Identifier \in DOMAIN times)
         => (last'.raised /\ messages' = messages /\ times' = times
                /\ heap' = heap)]_vars

\* C2 witness: an enqueue of a live identifier has just raised.
C2_Witness ==
    /\ last.op = "enqueue"
    /\ last.raised
    /\ last.msg[1].Identifier \in DOMAIN times
    /\ times[last.msg[1].Identifier] # last.arg[1]

\* C3: whenever Head returns (t, m), m is the live message of its identifier
\* and t is that identifier's recorded time-to-send.
C3_HeadIsLiveAndCurrent ==
    (last.op = "Head" /\ last.ret # None) =>
        LET id == last.ret[2].Identifier
        IN /\ id \in DOMAIN times
           /\ id \in DOMAIN messages
           /\ messages[id] = last.ret[2]
           /\ times[id] = last.ret[1]

\* C3 witness: Head returned a re-enqueued message with its new time while
\* the heap still holds the entry of its earlier enqueue.
C3_Witness ==
    /\ last.op = "Head"
    /\ last.ret # None
    /\ \E k \in 1 .. Len(heap) :
          heap[k][2] = last.ret[2].Identifier /\ heap[k][1] # last.ret[1]

\* C4: Head returns None exactly when no entry is live, and otherwise an
\* entry whose time-to-send is the least of the live entries.
C4_HeadIsEarliest ==
    last.op = "Head" =>
        /\ (last.ret = None) <=> (DOMAIN times = {})
        /\ last.ret # None => last.ret[1] = MinLiveTime

\* C4 witness: Head returned the earliest of two live entries from a heap
\* that also holds a stale entry.
C4_Witness ==
    /\ last.op = "Head"
    /\ last.ret # None
    /\ Count = 2
    /\ \E i \in DOMAIN times : times[i] > last.ret[1]
    /\ HasStaleEntry

\* C5 as stated: a successful enqueue(m, t) followed at once by Head returns
\* exactly (t, m) whenever no live entry has a time-to-send below t.
C5_AsStated ==
    [][(/\ last.op = "enqueue"
        /\ ~last.raised
        /\ last'.op = "Head"
        /\ \A i \in DOMAIN times : last.arg[1] <= times[i])
         => last'.ret = <<last.arg[1], last.msg[1]>>]_vars

\* C5 amended: under the same condition Head returns an entry whose
\* time-to-send is t, and it is exactly (t, m) when every other live entry
\* has a time-to-send above t.
C5_EnqueueThenHead ==
    [][(/\ last.op = "enqueue"
        /\ ~last.raised
        /\ last'.op = "Head"
        /\ \A i \in DOMAIN times : last.arg[1] <= times[i])
         => /\ last'.ret # None
            /\ last'.ret[1] = last.arg[1]
            /\ (\A i \in DOMAIN times \ {last.msg[1].Identifier} :
                    last.arg[1] < times[i])
                 => last'.ret = <<last.arg[1], last.msg[1]>>]_vars

\* C5 witness: Head has returned the entry enqueued just before it, which
\* was pushed behind other heap entries.
C5_Witness ==
    /\ last.op = "Head"
    /\ last.ret # None
    /\ Count = 2
    /\ last.ret[2].Identifier = 2
    /\ \A i \in DOMAIN times \ {2} : last.ret[1] < times[i]

\* C6: the heap never holds more than twice as many entries as are live.
C6_HeapWithinTwiceCount == Len(heap) <= 2 * Count

\* C6 witness: a dequeue has left the heap at exactly twice the live count.
C6_Witness ==
    /\ last.op = "dequeue"
    /\ Count > 0
    /\ Len(heap) = 2 * Count
    /\ HasStaleEntry

\* A step of the token bucket's environment, not a call on this node.
LimiterStep == UNCHANGED <<estimator, queue, config, last>>

\* C7: get_next_message(now) returns a message m only if m was the earliest
\* live entry when it was called, its time-to-send was strictly below now,
\* and m is a system message or consume(len(m)) was granted; m is then no
\* longer live and the other entries are as before; when None is returned
\* the live entries are unchanged.
C7_ReturnsOnlySendable ==
    [][(~LimiterStep /\ last'.op = "get_next_message") =>
          IF last'.ret # None
          THEN LET m == last'.ret[1]
                   id == m.Identifier
               IN /\ Len(last'.ret) = 1
                  /\ id \in DOMAIN times
                  /\ messages[id] = m
                  /\ times[id] = MinLiveTime
                  /\ times[id] < last'.arg[1]
                  /\ \/ m.IsSystemMessage
                     \/ /\ last'.consumed = <<m.len>>
                        /\ m.len <= tokens
                        /\ tokens' = tokens - m.len
                  /\ id \notin DOMAIN times'
                  /\ times' = Remove(times, id)
                  /\ messages' = Remove(messages, id)
          ELSE times' = times /\ messages' = messages]_vars

\* C7 witness: an ordinary message has been returned while another message
\* stays queued.
C7_Witness ==
    /\ last.op = "get_next_message"
    /\ last.ret # None
    /\ ~last.ret[1].IsSystemMessage
    /\ Count = 1

\* C8: no call but get_next_message invokes consume or changes the token
\* bucket; get_next_message invokes it at most once, only when the queue is
\* not empty and its earliest live message is due (time-to-send < now) and
\* not a system message, with that message's length; when consume is not
\* invoked the bucket is unchanged.
C8_ConsumeOnlyBehindTimeGate ==
    [][~LimiterStep =>
          /\ last'.op # "get_next_message" =>
                (last'.consumed = <<>> /\ tokens' = tokens)
          /\ last'.op = "get_next_message" =>
                /\ Len(last'.consumed) <= 1
                /\ last'.consumed = <<>> => tokens' = tokens
                /\ last'.consumed # <<>> =>
                      /\ Count > 0
                      /\ \E id \in DOMAIN times :
                            /\ times[id] = MinLiveTime
                            /\ times[id] < last'.arg[1]
                            /\ ~messages[id].IsSystemMessage
                            /\ last'.consumed = <<messages[id].len>>]_vars

\* C8 witness: get_next_message found an ordinary message not yet due and
\* did not ask the token bucket, which could have granted it.
C8_Witness ==
    /\ last.op = "get_next_message"
    /\ last.consumed = <<>>
    /\ last.ret = None
    /\ Count = 1
    /\ \E id \in DOMAIN times :
          /\ ~messages[id].IsSystemMessage
          /\ times[id] >= last.arg[1]
          /\ messages[id].len <= tokens

\* The message a pending denial is about: the entry at the front of the
\* queue.
FrontMessage == Head_value(messages, times, Head_heap(heap, times))[2]

\* The last call on the node was a get_next_message that consume denied.
Denied ==
    /\ last.op = "get_next_message"
    /\ last.consumed # <<>>
    /\ last.ret = None

\* C9: when consume denies the due, ordinary head message, the call returns
\* None without raising and changes neither the live entries, nor the
\* estimator, nor the bucket; the next call on the node, if it is a
\* get_next_message with a clock not below the denied call's and consume
\* grants, returns that same message.
C9_DenialKeepsMessage ==
    [][~LimiterStep =>
          /\ (/\ last'.op = "get_next_message"
              /\ last'.consumed # <<>>
              /\ last'.consumed[1] > tokens)
               => /\ last'.ret = None
                  /\ ~last'.raised
                  /\ messages' = messages
                  /\ times' = times
                  /\ estimator' = estimator
                  /\ tokens' = tokens
          /\ (/\ Denied
              /\ last'.op = "get_next_message"
              /\ last'.arg[1] >= last.arg[1]
              /\ FrontMessage.len <= tokens)
               => /\ FrontMessage.len = last.consumed[1]
                  /\ last'.ret = <<FrontMessage>>]_vars

\* C9 witness: a denied message is still at the front of the queue, beside
\* another live message, and the bucket has since been refilled enough to
\* grant it.
C9_Witness ==
    /\ Denied
    /\ Count = 2
    /\ RTO > MinimumRTO
    /\ FrontMessage.len = last.consumed[1]
    /\ FrontMessage.len <= tokens

\* C10: enqueue_message(msg, now) queues a system message at 0 whatever now
\* is and an ordinary message at now + Delay(), which under the fixed-delay
\* policy is now + FixedRandomDelay, a value that never changes; a system
\* message that is alone in the queue is peeked as (0, msg).
C10_TimeToSend ==
    /\ [][/\ (last'.op = "enqueue_message" /\ ~last'.raised) =>
                \A m \in Msgs, now \in Nows :
                   NodeEnqueue(m, now) =>
                      /\ m.Identifier \in DOMAIN times'
                      /\ messages'[m.Identifier] = m
                      /\ times'[m.Identifier] =
                            IF m.IsSystemMessage THEN 0
                            ELSE IF UseFixedDelay THEN now + FixedRandomDelay
                            ELSE now + CHOOSE d \in RandomDelays :
                                           times'[m.Identifier] = now + d
          /\ FixedRandomDelay' = FixedRandomDelay
          /\ UseFixedDelay' = UseFixedDelay]_vars
    /\ [](\A id \in DOMAIN messages :
             (/\ last.op = "Head"
              /\ DOMAIN messages = {id}
              /\ messages[id].IsSystemMessage)
               => last.ret = <<0, messages[id]>>)

\* C10 witness: under the fixed-delay policy an ordinary message enqueued at
\* the latest clock value is queued FixedRandomDelay later, beside a system
\* message queued at 0.
C10_Witness ==
    /\ last.op = "enqueue_message"
    /\ ~last.raised
    /\ UseFixedDelay
    /\ Count = 2
    /\ \E id \in DOMAIN times :
          ~messages[id].IsSystemMessage /\ times[id] = MaxNow + FixedRandomDelay
    /\ \E id \in DOMAIN times : messages[id].IsSystemMessage /\ times[id] = 0

\* The clock argument of message_dropped: a number, or None when the caller
\* leaves it out.
DroppedNows == {None} \cup {<<n>> : n \in Nows}

\* C11 as stated: message_dropped(msg, now) for a message that is not live
\* backs the estimator off exactly once and queues msg as enqueue_message(msg,
\* now) would, for every now the caller supplies: a system message at 0, an
\* ordinary message at the supplied now + Delay().
C11_AsStated ==
    [][last'.op = "message_dropped" =>
          \A m \in Msgs, n \in Nows :
             (MessageDropped(m, <<n>>) /\ m.Identifier \notin DOMAIN times) =>
                /\ ~last'.raised
                /\ RTO' = Min(RTO * BackoffRate, MaximumRTO)
                /\ SRTT' = 0
                /\ RTTVAR' = 0
                /\ m.Identifier \in DOMAIN times'
                /\ messages'[m.Identifier] = m
                /\ times'[m.Identifier] \in
                      {IF m.IsSystemMessage THEN 0 ELSE n + d : d \in Delay}]_vars

\* What the code does instead: the same, with a supplied now of 0 replaced by
\* the wall clock, as when now is left out.
C11_ZeroIsUnspecified ==
    [][last'.op = "message_dropped" =>
          \A m \in Msgs, now \in DroppedNows :
             (MessageDropped(m, now) /\ m.Identifier \notin DOMAIN times) =>
                /\ ~last'.raised
                /\ RTO' = Min(RTO * BackoffRate, MaximumRTO)
                /\ SRTT' = 0
                /\ RTTVAR' = 0
                /\ m.Identifier \in DOMAIN times'
                /\ messages'[m.Identifier] = m
                /\ times'[m.Identifier] \in
                      {IF m.IsSystemMessage THEN 0
                       ELSE (IF now \in {None, <<0>>} THEN w ELSE now[1]) + d :
                          d \in Delay, w \in WallTimes}
                /\ (now \notin {None, <<0>>} /\ ~m.IsSystemMessage) =>
                      times'[m.Identifier] \in {now[1] + d : d \in Delay}]_vars

\* C12: message_delivered(msg, rtt) applies one estimator update with rtt and
\* leaves msg not live, whether or not it was queued; it does not raise, and
\* every other live entry keeps its message and time-to-send (so when msg was
\* not queued the live entries are unchanged).
C12_DeliveredUpdatesAndRemoves ==
    [][last'.op = "message_delivered" =>
          \A m \in Msgs, rtt \in NodeRtts :
             MessageDelivered(m, rtt) =>
                LET id == m.Identifier
                IN /\ ~last'.raised
                   /\ RTTVAR' = update_RTTVAR(SRTT, RTTVAR, rtt)
                   /\ SRTT' = update_SRTT(SRTT, RTTVAR, rtt)
                   /\ RTO' = Clamp(SRTT' + Max(MinResolution, K * RTTVAR'))
                   /\ id \notin DOMAIN times'
                   /\ id \notin DOMAIN messages'
                   /\ DOMAIN times' = DOMAIN times \ {id}
                   /\ DOMAIN messages' = DOMAIN messages \ {id}
                   /\ \A j \in DOMAIN times' :
                         times'[j] = times[j] /\ messages'[j] = messages[j]
                   /\ id \notin DOMAIN times =>
                         (times' = times /\ messages' = messages)]_vars

\* C12 witness: a second delivery has smoothed the estimate and left one
\* message queued, with the entry of a removed message still in the heap.
C12_Witness ==
    /\ last.op = "message_delivered"
    /\ ~last.raised
    /\ RTTVAR > 0
    /\ 2 * RTTVAR < SRTT
    /\ Count = 1
    /\ HasStaleEntry

\* C13: every backoff() sets RTO to min(2 x the RTO before it, 60), so RTO
\* never decreases and stays at 60 once there; after a run of n consecutive
\* backoffs that began with RTO_0, RTO = min(RTO_0 x 2^n, 60).
C13_BackoffCompounds ==
    /\ [][last'.op = "backoff" =>
             /\ RTO' = Min(2 * RTO, 60 * Unit)
             /\ RTO' >= RTO
             /\ RTO = 60 * Unit => RTO' = 60 * Unit]_vars
    /\ [](last.op = "backoff" =>
             RTO = Min(last.arg[2] * (2 ^ last.arg[1]), 60 * Unit))

\* C13 witness: two consecutive backoffs of an estimate of 6 s have left RTO
\* at 24 s.
C13_Witness ==
    /\ last.op = "backoff"
    /\ last.arg = <<2, 6 * Unit>>
    /\ RTO = 24 * Unit

\* C14: the first update(measured) after construction or after a backoff
\* sets SRTT = measured and RTTVAR = measured / 2, and leaves SRTT, RTTVAR
\* and RTO as update(measured) leaves a new estimator, whatever came before.
C14_FirstUpdateReseeds ==
    (last.op = "update" /\ last.arg[2] \in {"init", "backoff"}) =>
        LET measured == last.arg[1]
        IN /\ SRTT = measured
           /\ 2 * RTTVAR = measured
           /\ RTO = Max(Unit, Min(60 * Unit,
                        measured + Max(Unit \div 40, 2 * measured)))
           /\ SRTT = update_SRTT(0, 0, measured)
           /\ RTTVAR = update_RTTVAR(0, 0, measured)
           /\ RTO = update_RTO(update_SRTT(0, 0, measured),
                               update_RTTVAR(0, 0, measured))

\* C14 witness: an update with 2 s that followed a backoff to the ceiling
\* has left SRTT = 2, RTTVAR = 1 and RTO = 6.
C14_Witness ==
    /\ last.op = "update"
    /\ last.arg = <<2 * Unit, "backoff", MaximumRTO>>
    /\ SRTT = 2 * Unit
    /\ RTTVAR = Unit
    /\ RTO = 6 * Unit

\* The values the smoothing step of update(measured) leaves, from the values
\* before it.
Smoothed(measured) ==
    /\ 4 * RTTVAR' = 3 * RTTVAR + Abs(SRTT - measured)
    /\ 8 * SRTT' = 7 * SRTT + measured
    /\ RTO' = Max(Unit, Min(60 * Unit, SRTT' + Max(Unit \div 40, 4 * RTTVAR')))

\* C15 as stated: every update(measured) that follows another update, with
\* no backoff between them, smooths, for any measured value.
C15_AsStated ==
    [][(last.op = "update" /\ last'.op = "update") =>
          Smoothed(last'.arg[1])]_vars

\* C15 amended: such an update smooths when RTTVAR is not 0, which is so
\* unless every measurement since construction or the latest backoff was 0;
\* otherwise SRTT and RTTVAR are 0 and the update seeds the estimator again.
C15_SmoothsUnlessZero ==
    /\ [](last.op = "update" =>
             /\ RTTVAR >= 0
             /\ RTTVAR = 0 => (SRTT = 0 /\ last.arg[1] = 0)
             /\ last.arg[1] > 0 => RTTVAR > 0)
    /\ [][(last.op = "update" /\ last'.op = "update") =>
             IF RTTVAR # 0
             THEN Smoothed(last'.arg[1])
             ELSE /\ SRTT' = last'.arg[1]
                  /\ 2 * RTTVAR' = last'.arg[1]]_vars

\* C15 witness: a measurement of 0 has been smoothed into an estimate that
\* an earlier measurement seeded.
C15_Witness ==
    /\ last.op = "update"
    /\ last.arg[1] = 0
    /\ last.arg[2] = "update"
    /\ SRTT > 0
    /\ 2 * RTTVAR # SRTT

\* What Head would return from the given dictionaries and heap.
peek_earliest(ms, tm, h) == Head_value(ms, tm, Head_heap(h, tm))

\* C16: dequeue_message(m) for an identifier that is not live does not raise
\* and leaves Count, every live entry and what Head would return unchanged;
\* a second dequeue_message(m) straight after the first changes none of these
\* either.
C16_DequeueAbsentIsNoOp ==
    [][(/\ last'.op = "dequeue"
        /\ \/ last'.msg[1].Identifier \notin DOMAIN times
           \/ (last.op = "dequeue" /\ last.msg = last'.msg))
         => /\ ~last'.raised
            /\ Cardinality(DOMAIN times') = Count
            /\ times' = times
            /\ messages' = messages
            /\ peek_earliest(messages', times', heap')
                  = peek_earliest(messages, times, heap)]_vars

\* C16 witness: a dequeue found its identifier not live, while the heap still
\* holds an entry of that identifier beside the entry of a live message.
C16_Witness ==
    /\ last.op = "dequeue"
    /\ last.arg = <<FALSE>>
    /\ ~last.raised
    /\ Count = 1
    /\ \E k \in 1 .. Len(heap) : heap[k][2] = last.msg[1].Identifier

\* A system message is live.
SystemMessageLive == \E id \in DOMAIN messages : messages[id].IsSystemMessage

\* No ordinary message is queued at time-to-send 0, where it would tie with
\* the system messages.
NoOrdinaryAtZero ==
    \A id \in DOMAIN times : ~messages[id].IsSystemMessage => times[id] > 0

\* C17 as stated: whenever a system message is live, get_next_message(now)
\* returns a system message for every now >= 0, without asking the token
\* bucket.
C17_AsStated ==
    [][(~LimiterStep /\ last'.op = "get_next_message" /\ SystemMessageLive) =>
          /\ last'.ret # None
          /\ last'.ret[1].IsSystemMessage
          /\ last'.consumed = <<>>
          /\ tokens' = tokens]_vars

\* C17 amended: whenever a system message is live, get_next_message(now)
\* returns nothing for now = 0 (the time gate is 0 < now) and leaves the
\* queue as it is; for every now > 0 it returns a system message without
\* asking the token bucket, provided no ordinary message is queued at
\* time-to-send 0; in every case what it returns was queued at 0.
C17_SystemMessagesAfterZero ==
    [][(~LimiterStep /\ last'.op = "get_next_message" /\ SystemMessageLive) =>
          IF last'.arg[1] = 0
          THEN /\ last'.ret = None
               /\ last'.consumed = <<>>
               /\ tokens' = tokens
               /\ times' = times
               /\ messages' = messages
          ELSE /\ NoOrdinaryAtZero =>
                  /\ last'.ret # None
                  /\ last'.ret[1].IsSystemMessage
                  /\ last'.consumed = <<>>
                  /\ tokens' = tokens
               /\ last'.ret # None =>
                     times[last'.ret[1].Identifier] = 0]_vars

\* C17 witness: a system message has been returned while the bucket is empty
\* and an ordinary message, queued later, stays live.
C17_Witness ==
    /\ last.op = "get_next_message"
    /\ last.ret # None
    /\ last.ret[1].IsSystemMessage
    /\ last.arg[1] > 0
    /\ tokens = 0
    /\ Count = 1
    /\ \A id \in DOMAIN times : ~messages[id].IsSystemMessage /\ times[id] > 0

\* C18 as stated: message_dropped(msg, now) for an identifier that is live
\* raises and leaves the queue and the estimator exactly as they were.
C18_AsStated ==
    [][(~LimiterStep /\ last'.op = "message_dropped" /\ last'.arg = <<TRUE>>) =>
          /\ last'.raised
          /\ messages' = messages
          /\ times' = times
          /\ heap' = heap
          /\ RTO' = RTO
          /\ SRTT' = SRTT
          /\ RTTVAR' = RTTVAR]_vars

\* C18 amended: the call raises and leaves the queue exactly as it was, but
\* the estimator has been backed off once before the failure.
C18_FailedDropBacksOff ==
    [][(~LimiterStep /\ last'.op = "message_dropped" /\ last'.arg = <<TRUE>>) =>
          /\ last'.raised
          /\ messages' = messages
          /\ times' = times
          /\ heap' = heap
          /\ RTO' = Min(2 * RTO, 60 * Unit)
          /\ SRTT' = 0
          /\ RTTVAR' = 0]_vars

\* C18 witness: a message_dropped has raised on a queue of two messages and
\* left a seeded estimator unseeded with a doubled RTO.
C18_Witness ==
    /\ last.op = "message_dropped"
    /\ last.arg = <<TRUE>>
    /\ last.raised
    /\ Count = 2
    /\ RTO = 2 * MinimumRTO
    /\ SRTT = 0
    /\ RTTVAR = 0

\* C19: in every state the two dictionaries have the same keys and the heap
\* holds, for every live identifier, the entry (current time-to-send,
\* identifier); so Head returns an entry whenever Count > 0, and no
\* assertion of Head, _trimheap or _buildheap fails.
C19_HeapCoversLiveEntries ==
    /\ DOMAIN messages = DOMAIN times
    /\ \A id \in DOMAIN times :
          \E k \in 1 .. Len(heap) : heap[k] = <<times[id], id>>
    /\ Count > 0 => peek_earliest(messages, times, heap) # None
    /\ (last.op = "Head" /\ Count > 0) => last.ret # None
    /\ last.op \in {"Head", "dequeue", "dequeue_message", "get_next_message",
                    "message_delivered"} => ~last.raised
    /\ Head_asserts(messages, times, Head_heap(heap, times))
    /\ buildheap_asserts(messages, times, heap)

\* C19 witness: a dequeue of a live message has rebuilt the heap, which now
\* holds the entry of the one message still live and nothing else.
C19_Witness ==
    /\ last.op = "dequeue"
    /\ last.arg = <<TRUE>>
    /\ Count = 1
    /\ Len(heap) = 1
    /\ \E id \in DOMAIN times : heap[1] = <<times[id], id>>

\* The call that has just returned was get_next_message returning the
\* message of identifier id.
Returned(id) ==
    /\ last.op = "get_next_message"
    /\ last.ret # None
    /\ last.ret[1].Identifier = id

\* The latest call queued a message or tried to.
Enqueueing == last.op = "enqueue_message"

\* A live message leaves the queue only by being returned by
\* get_next_message or by the caller's dequeue_message; a denial or a front
\* message that is not yet due removes nothing.
LeavesOnlyBySendOrRemoval ==
    [][\A id \in DOMAIN times :
          id \notin DOMAIN times' =>
             \/ last'.op = "dequeue_message"
             \/ Returned(id)']_vars

\* C20 as stated: with an advancing clock, repeated calls and a bucket that
\* grants again and again when asked, every message that is enqueued is eventually
\* returned unless the caller removes it.
C20_AsStated ==
    /\ LeavesOnlyBySendOrRemoval
    /\ \A id \in Ids : (id \in DOMAIN times) ~> (id \notin DOMAIN times)

\* C20 amended: the same, provided the caller stops enqueueing messages
\* from some point on.
C20_SentOnceEnqueueingStops ==
    /\ LeavesOnlyBySendOrRemoval
    /\ \A id \in Ids :
          (<>[]~Enqueueing)
             => ((id \in DOMAIN times) ~> (id \notin DOMAIN times))

\* C20 witness: an ordinary message that needed the whole bucket has been
\* returned at the last clock value, leaving the queue empty.
C20_Witness ==
    /\ Returned(NumIds)
    /\ ~last.ret[1].IsSystemMessage
    /\ clock = LastClock
    /\ tokens = MaxTokens - NumIds
    /\ Count = 0

====
